---- MODULE Spec2Model ----
(***************************************************************************)
(* K-nearest-neighbours contract KnnMachineLearning (src/src/lib.rs).      *)
(*                                                                         *)
(* Numbers.  The toy data and the query points are written as decimal      *)
(* literals with one fractional digit; the model writes such a literal as  *)
(* its integer number of tenths (15.8 is 158) and turns it into the double *)
(* the literal denotes with f64_lit.  An f64 value is the record           *)
(* [neg, m, e] of value (-1)^neg * m * 2^e, m a 53-bit significand held as *)
(* limbs; f64_sub, f64_powi2, f64_add and f64_sqrt round as IEEE 754 does, *)
(* so that distances are the very doubles the code computes and tie        *)
(* exactly when the code's distances do.                                   *)
(*                                                                         *)
(* Indices are kept 0-based as in the code; TLA+ sequences are 1-based, so *)
(* element x of a Rust slice s is s[x + 1] here.                           *)
(***************************************************************************)
EXTENDS Integers, Sequences, FiniteSets, TLC

VARIABLES
    initialized,   \* a KnnMachineLearning value exists
    param_k,       \* its field param_k (0 while none exists)
    logs,          \* lines passed to env::log_str, oldest first
    call,          \* the last call made and everything it computed
    sort_pc,       \* "idle" | "input" | "done": harness around sort_and_argsort
    sort_in,       \* the vector handed to sort_and_argsort
    sort_out       \* what sort_and_argsort returned for sort_in

vars == <<initialized, param_k, logs, call, sort_pc, sort_in, sort_out>>

----------------------------------------------------------------------------
(* Bounds of the exploration *)

MaxCalls == 3      \* run_analysis calls per classifier
MaxLen == 4        \* longest vector given to sort_and_argsort on its own
MaxVal == 2        \* values of such a vector range over 0..MaxVal

----------------------------------------------------------------------------
(* Constant data, in tenths *)

U8 == 0..255

TOY_CANCER_TRAIN ==
    << <<14, 142>>, <<73, 36>>, <<158, 20>>, <<70, 91>>, <<139, 57>>,
       <<166, 21>>, <<181, 45>>, <<81, 111>>, <<119, 19>>, <<128, 157>> >>

TOY_CANCER_TARGET == <<0, 1, 1, 1, 0, 0, 1, 0, 1, 0>>

TOY_CUSTOMER_TRAIN ==
    << <<114, 42>>, <<173, 136>>, <<58, 220>>, <<70, 11>>, <<139, 57>>,
       <<166, 91>>, <<81, 15>>, <<11, 111>>, <<29, 199>>, <<228, 157>> >>

TOY_CUSTOMER_TARGET == <<1, 0, 0, 1, 1, 0, 1, 1, 1, 0>>

LOG_CANCER == "Working with cancer dataset."
LOG_CUSTOMER == "Working with customer dataset."
LOG_RESPECIFY == "Data can either be: 'cancer' or 'customer' data. Re-specify."

\* Inputs of run_analysis: the two registered selectors and the unregistered
\* one of tests::test_run_analysis.
Selectors == {"cancer", "customer", "wrong dataset"}

\* Query points, in tenths: the ten cancer training points, the points of
\* the tests, points whose f64 distances to two training points are equal
\* ([11.0, 4.8]: cancer 4 and 8; [5.4, 4.6]: cancer 7 and 8;
\*  [8.9, 14.2]: customer 2 and 7; [18.4, 2.2]: customer 1 and 3), and
\* points equidistant from two training points in exact arithmetic whose
\* f64 distances differ in the last place ([0.5, 2.8]: cancer 0 and 8;
\* [0.8, 2.7]: cancer 7 and 8; [2.5, 0.9]: cancer 0 and 2).
QuerySet ==
    { TOY_CANCER_TRAIN[i] : i \in 1..10 }
        \cup { <<139, 19>>, <<22, 140>> }
        \cup { <<110, 48>>, <<54, 46>>, <<89, 142>>, <<184, 22>> }
        \cup { <<5, 28>>, <<8, 27>>, <<25, 9>> }

----------------------------------------------------------------------------
(* Helpers *)

Min(S) == CHOOSE x \in S : \A y \in S : x <= y

Range(s) == { s[i] : i \in 1..Len(s) }

\* Sequences over S of length 0..n
SeqUpTo(S, n) == UNION { [1..m -> S] : m \in 0..n }

----------------------------------------------------------------------------
(* Natural numbers of any size: little-endian sequences of limbs in          *)
(* 0..LIMB-1 without leading zero limbs (zero is <<>>).  They carry the      *)
(* 53-bit significands of f64 values and the exact intermediate results.     *)

LIMB == 16384
LIMB_BITS == 14

Pow2Tab == <<1, 2, 4, 8, 16, 32, 64, 128, 256, 512, 1024, 2048, 4096, 8192,
             16384>>
Pow2(n) == Pow2Tab[n + 1]

Limb(a, i) == IF i >= 1 /\ i <= Len(a) THEN a[i] ELSE 0

RECURSIVE Zeros(_)
Zeros(n) == IF n <= 0 THEN <<>> ELSE <<0>> \o Zeros(n - 1)

RECURSIVE BigTrim(_)
BigTrim(a) ==
    IF a = <<>> THEN <<>>
    ELSE IF a[Len(a)] = 0 THEN BigTrim(SubSeq(a, 1, Len(a) - 1))
    ELSE a

\* Limbs of the number whose i-th column holds cols[i] (each below 2^31)
RECURSIVE BigCarry(_, _, _)
BigCarry(cols, i, carry) ==
    IF i > Len(cols) /\ carry = 0 THEN <<>>
    ELSE LET t == Limb(cols, i) + carry
         IN  <<t % LIMB>> \o BigCarry(cols, i + 1, t \div LIMB)

BigAdd(a, b) ==
    LET n == IF Len(a) > Len(b) THEN Len(a) ELSE Len(b)
    IN  BigTrim(BigCarry([i \in 1..n |-> Limb(a, i) + Limb(b, i)], 1, 0))

RECURSIVE BigBorrow(_, _, _, _)
BigBorrow(a, b, i, borrow) ==
    IF i > Len(a) THEN <<>>
    ELSE LET t == a[i] - Limb(b, i) - borrow
         IN  IF t < 0 THEN <<t + LIMB>> \o BigBorrow(a, b, i + 1, 1)
             ELSE <<t>> \o BigBorrow(a, b, i + 1, 0)

\* a - b for a >= b
BigSub(a, b) == BigTrim(BigBorrow(a, b, 1, 0))

RECURSIVE BigCmpFrom(_, _, _)
BigCmpFrom(a, b, i) ==
    IF i = 0 THEN 0
    ELSE IF a[i] < b[i] THEN -1
    ELSE IF a[i] > b[i] THEN 1
    ELSE BigCmpFrom(a, b, i - 1)

\* -1, 0, 1 as a < b, a = b, a > b
BigCmp(a, b) ==
    IF Len(a) < Len(b) THEN -1
    ELSE IF Len(a) > Len(b) THEN 1
    ELSE BigCmpFrom(a, b, Len(a))

RECURSIVE BigColumn(_, _, _, _)
BigColumn(a, b, k, i) ==
    IF i > Len(a) THEN 0
    ELSE (IF k + 1 - i >= 1 /\ k + 1 - i <= Len(b)
          THEN a[i] * b[k + 1 - i] ELSE 0) + BigColumn(a, b, k, i + 1)

\* Schoolbook product; one factor has at most 7 limbs
BigMul(a, b) ==
    IF a = <<>> \/ b = <<>> THEN <<>>
    ELSE BigTrim(BigCarry([k \in 1..(Len(a) + Len(b) - 1) |->
                              BigColumn(a, b, k, 1)], 1, 0))

\* a * 2^s
BigShl(a, s) ==
    IF a = <<>> THEN <<>>
    ELSE LET r == s % LIMB_BITS
         IN  Zeros(s \div LIMB_BITS)
                 \o BigCarry([i \in 1..Len(a) |-> a[i] * Pow2(r)], 1, 0)

\* floor(a / 2^s)
BigShr(a, s) ==
    LET w == s \div LIMB_BITS
        r == s % LIMB_BITS
        n == Len(a) - w
    IN  IF n <= 0 THEN <<>>
        ELSE BigTrim([i \in 1..n |->
                 (a[w + i] \div Pow2(r))
                     + (Limb(a, w + i + 1) % Pow2(r)) * Pow2(LIMB_BITS - r)])

\* Bit i of a, bit 0 the lowest
BigBit(a, i) ==
    (Limb(a, (i \div LIMB_BITS) + 1) \div Pow2(i % LIMB_BITS)) % 2

\* a mod 2^n # 0
BigLowNonzero(a, n) ==
    LET w == n \div LIMB_BITS
    IN  \/ \E i \in 1..w : Limb(a, i) # 0
        \/ Limb(a, w + 1) % Pow2(n % LIMB_BITS) # 0

BigBitLen(a) ==
    IF a = <<>> THEN 0
    ELSE LIMB_BITS * (Len(a) - 1)
             + (CHOOSE n \in 1..LIMB_BITS :
                    Pow2(n - 1) <= a[Len(a)] /\ a[Len(a)] < Pow2(n))

BigOfSmall(x) == BigTrim(BigCarry(<<x>>, 1, 0))

\* Remainder of (limbs i+1.. of a) divided by the small d
RECURSIVE BigRemAbove(_, _, _)
BigRemAbove(a, d, i) ==
    IF i >= Len(a) THEN 0
    ELSE (BigRemAbove(a, d, i + 1) * LIMB + a[i + 1]) % d

\* floor(a / d) for a small d
BigDivSmall(a, d) ==
    BigTrim([i \in 1..Len(a) |-> (BigRemAbove(a, d, i) * LIMB + a[i]) \div d])

\* floor(sqrt(m)) for m < 2^112, found bit by bit from the top
RECURSIVE BigIsqrtFrom(_, _, _)
BigIsqrtFrom(m, t, i) ==
    IF i < 0 THEN t
    ELSE LET c == [t EXCEPT ![(i \div LIMB_BITS) + 1] = @ + Pow2(i % LIMB_BITS)]
         IN  IF BigCmp(BigMul(c, c), m) <= 0
             THEN BigIsqrtFrom(m, c, i - 1)
             ELSE BigIsqrtFrom(m, t, i - 1)

BigIsqrt(m) == BigTrim(BigIsqrtFrom(m, <<0, 0, 0, 0>>, 55))

----------------------------------------------------------------------------
(* f64.  A finite double is [neg, m, e] with value (-1)^neg * m * 2^e, m a   *)
(* significand of exactly MANT_BITS bits; zero is F64_ZERO.  Every           *)
(* operation computes the exact result and rounds it to nearest, ties to     *)
(* even, as IEEE 754 does.  The values of this program stay far from the     *)
(* overflow and subnormal ranges, which are not represented, as NaN and the  *)
(* infinities are not.                                                       *)

MANT_BITS == 53

F64_ZERO == [neg |-> FALSE, m |-> <<>>, e |-> 0]

\* The double nearest to (-1)^neg * (m + f) * 2^e, where 0 <= f < 1 and
\* sticky says f > 0 (then m has more than MANT_BITS + 1 bits).
F64Round(neg, m, e, sticky) ==
    LET len == BigBitLen(m)
        s == len - MANT_BITS
    IN  IF m = <<>> THEN F64_ZERO
        ELSE IF s <= 0
        THEN [neg |-> neg, m |-> BigShl(m, 0 - s), e |-> e + s]
        ELSE LET q == BigShr(m, s)
                 up == /\ BigBit(m, s - 1) = 1
                       /\ \/ sticky
                          \/ BigLowNonzero(m, s - 1)
                          \/ BigBit(q, 0) = 1
                 q1 == IF up THEN BigAdd(q, <<1>>) ELSE q
             IN  IF BigBitLen(q1) > MANT_BITS
                 THEN [neg |-> neg, m |-> BigShr(q1, 1), e |-> e + s + 1]
                 ELSE [neg |-> neg, m |-> q1, e |-> e + s]

\* The double a decimal literal with one fractional digit denotes
\* (t tenths): 15.8 is f64_lit(158).
f64_lit(t) ==
    LET a == IF t < 0 THEN 0 - t ELSE t
        n == BigShl(BigOfSmall(a), 60)
    IN  F64Round(t < 0, BigDivSmall(n, 10), -60, BigRemAbove(n, 10, 0) # 0)

f64_neg(a) == IF a.m = <<>> THEN a ELSE [a EXCEPT !.neg = ~a.neg]

\* -1, 0, 1 as |a| < |b|, |a| = |b|, |a| > |b|
F64CmpMag(a, b) ==
    IF a.m = <<>> THEN (IF b.m = <<>> THEN 0 ELSE -1)
    ELSE IF b.m = <<>> THEN 1
    ELSE IF a.e # b.e THEN (IF a.e < b.e THEN -1 ELSE 1)
    ELSE BigCmp(a.m, b.m)

\* a.partial_cmp(b) on finite values: -1 Less, 0 Equal, 1 Greater
f64_partial_cmp(a, b) ==
    IF a.neg # b.neg THEN (IF a.neg THEN -1 ELSE 1)
    ELSE IF a.neg THEN 0 - F64CmpMag(a, b)
    ELSE F64CmpMag(a, b)

f64_lt(a, b) == f64_partial_cmp(a, b) = -1
f64_le(a, b) == f64_partial_cmp(a, b) <= 0

\* a == b: every value has one record only (no -0.0, no NaN)
f64_eq(a, b) == a = b

\* a + b
f64_add(a, b) ==
    IF a.m = <<>> THEN b
    ELSE IF b.m = <<>> THEN a
    ELSE LET e == IF a.e < b.e THEN a.e ELSE b.e
             x == BigShl(a.m, a.e - e)
             y == BigShl(b.m, b.e - e)
             c == BigCmp(x, y)
         IN  IF a.neg = b.neg THEN F64Round(a.neg, BigAdd(x, y), e, FALSE)
             ELSE IF c = 0 THEN F64_ZERO
             ELSE IF c > 0 THEN F64Round(a.neg, BigSub(x, y), e, FALSE)
             ELSE F64Round(b.neg, BigSub(y, x), e, FALSE)

\* a - b
f64_sub(a, b) == f64_add(a, f64_neg(b))

\* a * b
f64_mul(a, b) ==
    IF a.m = <<>> \/ b.m = <<>> THEN F64_ZERO
    ELSE F64Round(a.neg # b.neg, BigMul(a.m, b.m), a.e + b.e, FALSE)

\* a.powi(2): the product a * a
f64_powi2(a) == f64_mul(a, a)

\* a.sqrt() for a >= 0, correctly rounded
f64_sqrt(a) ==
    IF a.m = <<>> THEN F64_ZERO
    ELSE LET k == IF (a.e - 57) % 2 = 0 THEN 57 ELSE 58
             m == BigShl(a.m, k)
             t == BigIsqrt(m)
         IN  F64Round(FALSE, t, (a.e - k) \div 2, BigMul(t, t) # m)

----------------------------------------------------------------------------
(* KnnMachineLearning::new, Default::default *)

default_k == 5

\* The condition asserted by new (line 39)
new_accepts_any_parity(k) == (k > 0) /\ (k <= 15)
new_accepts_k35(k) == (k % 2 # 0) /\ (k > 0) /\ (k <= 35)
new_accepts(k) == (k % 2 # 0) /\ (k > 0) /\ (k <= 15)

----------------------------------------------------------------------------
(* calc_euclidean_dist *)

\* sum_sq_diff of one observation: starting from 0.0,
\* sum_sq_diff += (obs[ii] - pt[ii]).powi(2) for ii = 0, 1
sum_sq_diff_dim0(obs, pt) ==
    f64_add(F64_ZERO, f64_powi2(f64_sub(f64_lit(obs[1]), f64_lit(pt[1]))))
sum_sq_diff(obs, pt) ==
    f64_add(f64_add(F64_ZERO,
                    f64_powi2(f64_sub(f64_lit(obs[1]), f64_lit(pt[1])))),
            f64_powi2(f64_sub(f64_lit(obs[2]), f64_lit(pt[2]))))

\* dist.push(sum_sq_diff.sqrt()) for every observation, in the order of
\* arr_train
euclidean_dists(arr_train, pt) ==
    [i \in 1..Len(arr_train) |-> f64_sqrt(sum_sq_diff(arr_train[i], pt))]

\* euclidean_dists of the two training sets for the queries of QuerySet,
\* computed once
DIST_CACHE ==
    [in \in {TOY_CANCER_TRAIN, TOY_CUSTOMER_TRAIN} \X QuerySet |->
        euclidean_dists(in[1], in[2])] @@ <<>>

calc_euclidean_dist(arr_train, pt) ==
    IF <<arr_train, pt>> \in DOMAIN DIST_CACHE
    THEN DIST_CACHE[<<arr_train, pt>>]
    ELSE euclidean_dists(arr_train, pt)

----------------------------------------------------------------------------
(* sort_and_argsort *)

\* v.sort_by(|a, b| a.partial_cmp(b).unwrap()): ascending sort of finite
\* doubles, here by insertion of the head into the sorted tail.
RECURSIVE sort_by(_)
sort_by(s) ==
    IF s = <<>> THEN <<>>
    ELSE LET rest == sort_by(Tail(s))
             le == SelectSeq(rest, LAMBDA y : f64_lt(y, Head(s)))
             gt == SelectSeq(rest, LAMBDA y : ~f64_lt(y, Head(s)))
         IN  le \o <<Head(s)>> \o gt

\* iter().position(|&r| r == x): 0-based index of the first element equal to
\* x, NoPosition (Rust's None) when there is none.
NoPosition == -1

position_ge(s, x) ==
    LET hits == { j \in 1..Len(s) : f64_le(x, s[j]) }
    IN  IF hits = {} THEN NoPosition ELSE Min(hits) - 1
position(s, x) ==
    LET hits == { j \in 1..Len(s) : f64_eq(s[j], x) }
    IN  IF hits = {} THEN NoPosition ELSE Min(hits) - 1

\* Returns (inds, v); outcome is "panic" if a position lookup unwraps None.
sort_and_argsort(vec) ==
    LET v_original == vec
        v == sort_by(vec)
        inds == [ii \in 1..Len(v) |-> position(v_original, v[ii])]
    IN  [outcome |-> IF \E ii \in 1..Len(v) : inds[ii] = NoPosition
                     THEN "panic" ELSE "ok",
         inds |-> inds,
         v |-> v]

----------------------------------------------------------------------------
(* classify_test_point *)

\* s[0..hi] of Rust: the first hi elements; indexing past the end panics.
first_k_truncating(s, hi) ==
    [panic |-> FALSE, elems |-> SubSeq(s, 1, IF hi <= Len(s) THEN hi ELSE Len(s))]
first_k_slice(s, hi) ==
    IF hi <= Len(s) THEN [panic |-> FALSE, elems |-> SubSeq(s, 1, hi)]
    ELSE [panic |-> TRUE, elems |-> <<>>]

\* first_k.iter().filter(|&n| *n == c).count()
RECURSIVE count_eq(_, _)
count_eq(s, c) ==
    IF s = <<>> THEN 0
    ELSE (IF Head(s) = c THEN 1 ELSE 0) + count_eq(Tail(s), c)

\* if n_1 > n_0 { 1 } else { 0 }
majority_flipped(n_1, n_0) == IF n_1 > n_0 THEN 0 ELSE 1
majority(n_1, n_0) == IF n_1 > n_0 THEN 1 ELSE 0

NoResult == [outcome |-> "ok", classified |-> FALSE, ret |-> 0,
             inds |-> <<>>, first_k |-> <<>>, n_1 |-> 0, n_0 |-> 0]

\* Lines 71-83: the labels in the order of the argsort sa, their first k and
\* the vote
vote_of_argsort(k, arr_target, sa) ==
    LET indices == sa.inds
        sorted_targets == [i \in 1..Len(indices) |-> arr_target[indices[i] + 1]]
        slice == first_k_slice(sorted_targets, k)
        first_k == slice.elems
        n_1 == count_eq(first_k, 1)
        n_0 == count_eq(first_k, 0)
    IN  IF sa.outcome = "panic" \/ slice.panic
        THEN [NoResult EXCEPT !.outcome = "panic", !.classified = TRUE,
                              !.inds = indices]
        ELSE [outcome |-> "ok", classified |-> TRUE,
              ret |-> majority(n_1, n_0),
              inds |-> indices, first_k |-> first_k,
              n_1 |-> n_1, n_0 |-> n_0]

\* Lines 68-70: dist, then (indices, _) = sort_and_argsort(dist)
classify_test_point(k, arr_train, arr_target, pt) ==
    vote_of_argsort(k, arr_target,
                    sort_and_argsort(calc_euclidean_dist(arr_train, pt)))

----------------------------------------------------------------------------
(* run_analysis *)

\* data_set == "cancer" (line 51), data_set == "customer" (line 55)
is_cancer_or_unknown(data_set) == data_set # "customer"
is_cancer(data_set) == data_set = "cancer"
is_customer_or_unknown(data_set) == data_set # "cancer"
is_customer(data_set) == data_set = "customer"

\* The line the call logs and what the call computes.  ans starts at 0 and
\* is only overwritten by a classification.
run_analysis(k, data_set, test_point) ==
    IF is_cancer(data_set)
    THEN [line |-> LOG_CANCER,
          res |-> classify_test_point(k, TOY_CANCER_TRAIN, TOY_CANCER_TARGET,
                                      test_point)]
    ELSE IF is_customer(data_set)
    THEN [line |-> LOG_CUSTOMER,
          res |-> classify_test_point(k, TOY_CUSTOMER_TRAIN,
                                      TOY_CUSTOMER_TARGET, test_point)]
    ELSE [line |-> LOG_RESPECIFY, res |-> NoResult]

----------------------------------------------------------------------------
(* The contract as a state machine *)

NoCall == [op |-> "none", k |-> 0, data_set |-> "", pt |-> <<0, 0>>] @@ NoResult

Init ==
    /\ initialized = FALSE
    /\ param_k = 0
    /\ logs = <<>>
    /\ call = NoCall
    /\ sort_pc = "idle"
    /\ sort_in = <<>>
    /\ sort_out = sort_and_argsort(<<>>)

\* KnnMachineLearning::new(k): the assertion fails and nothing is built
\* unless new_accepts(k).
New(k) ==
    /\ ~initialized
    /\ IF new_accepts(k)
       THEN /\ initialized' = TRUE
            /\ param_k' = k
            /\ call' = [NoCall EXCEPT !.op = "new", !.k = k]
       ELSE /\ UNCHANGED <<initialized, param_k>>
            /\ call' = [NoCall EXCEPT !.op = "new", !.k = k,
                                      !.outcome = "panic"]
    /\ UNCHANGED <<logs, sort_pc, sort_in, sort_out>>

\* KnnMachineLearning::default()
Default ==
    /\ ~initialized
    /\ initialized' = TRUE
    /\ param_k' = default_k
    /\ call' = [NoCall EXCEPT !.op = "default", !.k = default_k]
    /\ UNCHANGED <<logs, sort_pc, sort_in, sort_out>>

\* run_analysis(&mut self, data_set, test_point): logs one line, then
\* classifies when the selector is registered.  A panic in the
\* classification aborts the call; self is written back unchanged otherwise.
RunAnalysis(data_set, test_point) ==
    /\ initialized
    /\ Len(logs) < MaxCalls
    /\ LET r == run_analysis(param_k, data_set, test_point)
       IN  /\ logs' = Append(logs, r.line)
           /\ call' = [op |-> "run_analysis", k |-> param_k,
                       data_set |-> data_set, pt |-> test_point] @@ r.res
    /\ UNCHANGED <<initialized, param_k, sort_pc, sort_in, sort_out>>

Next ==
    \/ \E k \in U8 : New(k)
    \/ Default
    \/ \E data_set \in Selectors, test_point \in QuerySet :
           RunAnalysis(data_set, test_point)

Spec == Init /\ [][Next]_vars

----------------------------------------------------------------------------
(* sort_and_argsort on its own, over every short vector of the doubles    *)
(* 0.0, 0.1, ..., MaxVal tenths                                            *)

\* vec![...] of one-decimal literals
F64Vec(tenths) == [i \in 1..Len(tenths) |-> f64_lit(tenths[i])]

InitSort ==
    /\ initialized = FALSE
    /\ param_k = 0
    /\ logs = <<>>
    /\ call = NoCall
    /\ sort_pc = "input"
    /\ sort_in \in { F64Vec(t) : t \in SeqUpTo(0..MaxVal, MaxLen) }
    /\ sort_out = sort_and_argsort(<<>>)

SortAndArgsort ==
    /\ sort_pc = "input"
    /\ sort_pc' = "done"
    /\ sort_out' = sort_and_argsort(sort_in)
    /\ UNCHANGED <<initialized, param_k, logs, call, sort_in>>

NextSort == SortAndArgsort

SpecSort == InitSort /\ [][NextSort]_vars

----------------------------------------------------------------------------
(* Properties *)

OddK == {1, 3, 5, 7, 9, 11, 13, 15}
Registered == {"cancer", "customer"}

\* Number of training points and labels of each registered dataset
N == 10

TrainOf(data_set) ==
    IF data_set = "cancer" THEN TOY_CANCER_TRAIN ELSE TOY_CUSTOMER_TRAIN
TargetOf(data_set) ==
    IF data_set = "cancer" THEN TOY_CANCER_TARGET ELSE TOY_CUSTOMER_TARGET

Occurrences(s, x) == Cardinality({ i \in 1..Len(s) : s[i] = x })

LastLog == logs[Len(logs)]

\* C1: new(k) produces a classifier holding exactly k if and only if k is odd
\* and 1 <= k <= 15; for every other k in 0..255 it faults and no classifier
\* exists afterwards.
C1_NewAcceptsExactlyOddK ==
    call.op = "new" =>
        /\ call.k \in OddK =>
               call.outcome = "ok" /\ initialized /\ param_k = call.k
        /\ call.k \notin OddK =>
               call.outcome = "panic" /\ ~initialized /\ param_k = 0

C1_Witness ==
    call.op = "new" /\ call.k = 17 /\ call.outcome = "panic" /\ ~initialized

\* C2: the indices returned by sort_and_argsort are a permutation of
\* 0..len(values), also when values contains equal elements.
C2_IndicesArePermutation ==
    sort_pc = "done" =>
        /\ Len(sort_out.inds) = Len(sort_in)
        /\ Range(sort_out.inds) = 0..(Len(sort_in) - 1)

\* C3: sort_and_argsort returns sorted_values non-decreasing and a
\* rearrangement of values, and indices of the same length with
\* values[indices[i]] == sorted_values[i] at every position i.
C3_SortedAndIndexed ==
    sort_pc = "done" =>
        /\ sort_out.outcome = "ok"
        /\ Len(sort_out.v) = Len(sort_in)
        /\ Len(sort_out.inds) = Len(sort_in)
        /\ \A i \in 1..(Len(sort_out.v) - 1) :
               f64_le(sort_out.v[i], sort_out.v[i + 1])
        /\ \A x \in Range(sort_in) \cup Range(sort_out.v) :
               Occurrences(sort_out.v, x) = Occurrences(sort_in, x)
        /\ \A i \in 1..Len(sort_out.inds) :
               /\ sort_out.inds[i] \in 0..(Len(sort_in) - 1)
               /\ f64_eq(sort_in[sort_out.inds[i] + 1], sort_out.v[i])

C3_Witness ==
    /\ sort_pc = "done"
    /\ sort_in = F64Vec(<<2, 0, 2, 1>>)
    /\ sort_out.v = F64Vec(<<0, 1, 2, 2>>)
    /\ sort_out.inds[1] = 1

\* The argsort the tie-break policy describes: slot i receives the first
\* original position, not given to an earlier slot, whose value equals the
\* i-th sorted value.
RECURSIVE FirstUnusedFrom(_, _, _, _)
FirstUnusedFrom(values, sorted, i, used) ==
    IF i > Len(sorted) THEN <<>>
    ELSE LET free == { j \in 1..Len(values) :
                         j \notin used /\ f64_eq(values[j], sorted[i]) }
             j == Min(free)
         IN  <<j - 1>> \o FirstUnusedFrom(values, sorted, i + 1, used \cup {j})

FirstUnusedArgsort(values, sorted) == FirstUnusedFrom(values, sorted, 1, {})

\* C4: with several equal values, each output slot receives the first
\* not-yet-used original position of its value, so equal values keep their
\* original order in indices (a stable argsort).
C4_StableArgsort ==
    sort_pc = "done" =>
        sort_out.inds = FirstUnusedArgsort(sort_in, sort_out.v)

UnknownSelectorCall ==
    call.op = "run_analysis" /\ call.data_set \notin Registered

\* C5 as stated: an unrecognized selector raises no fault, classifies
\* nothing, logs the re-specify line and reports an outcome that is not a
\* class label.
C5_UnknownSelectorNotALabel ==
    UnknownSelectorCall =>
        /\ call.outcome = "ok"
        /\ ~call.classified
        /\ LastLog = LOG_RESPECIFY
        /\ call.ret \notin {0, 1}

\* C5 amended: an unrecognized selector raises no fault, classifies nothing,
\* logs the re-specify line and returns 0, the initial value of ans and the
\* same integer as class label 0; a registered selector in the next call on
\* the same classifier is classified as usual.
C5_UnknownSelectorReturnsZero ==
    /\ [](UnknownSelectorCall =>
            /\ call.outcome = "ok"
            /\ ~call.classified
            /\ call.first_k = <<>>
            /\ LastLog = LOG_RESPECIFY
            /\ call.ret = 0
            /\ initialized)
    /\ [][(UnknownSelectorCall /\ logs' # logs
                /\ call'.data_set \in Registered) =>
            /\ param_k' = param_k
            /\ call'.classified
            /\ (param_k <= N) = (call'.outcome = "ok")
            /\ call'.outcome = "ok" =>
                   call'.ret \in {0, 1} /\ Len(call'.first_k) = param_k]_vars

C5_Witness ==
    /\ Len(logs) = 2
    /\ logs = <<LOG_RESPECIFY, LOG_CANCER>>
    /\ call.data_set = "cancer"
    /\ call.classified
    /\ call.outcome = "ok"

Classified == call.op = "run_analysis" /\ call.classified

\* C6: for odd k <= N, a registered dataset and any query, the result is in
\* {0,1}, and is 1 exactly when the labels at the first k ranked positions
\* hold strictly more 1s than 0s; the two counts differ and sum to k.
C6_MajorityOfFirstK ==
    (Classified /\ call.k <= N) =>
        LET labels == call.first_k
            ones == Occurrences(labels, 1)
            zeros == Occurrences(labels, 0)
        IN  /\ call.outcome = "ok"
            /\ Len(labels) = call.k
            /\ \A i \in 1..call.k :
                   labels[i] = TargetOf(call.data_set)[call.inds[i] + 1]
            /\ call.ret \in {0, 1}
            /\ (call.ret = 1) = (ones > zeros)
            /\ ones # zeros
            /\ ones + zeros = call.k
            /\ call.n_1 = ones /\ call.n_0 = zeros

C6_Witness ==
    /\ Classified
    /\ call.k = 5
    /\ call.data_set = "cancer"
    /\ call.pt = <<110, 48>>
    /\ call.first_k = <<0, 0, 1, 1, 1>>
    /\ call.ret = 1

\* C7: a classifier whose k exceeds the N = 10 labels (k in {11, 13, 15})
\* faults in every classification, and no classification returns a label
\* voted over fewer than k neighbours.
C7_InsufficientNeighboursFault ==
    Classified =>
        /\ call.k > N => call.outcome = "panic" /\ param_k = call.k
        /\ call.outcome = "ok" => Len(call.first_k) = call.k

C7_Witness ==
    /\ Classified
    /\ call.k = 11
    /\ call.data_set = "customer"
    /\ call.outcome = "panic"

\* k-nearest-neighbours by distance rank: training point i precedes j when it
\* is nearer, or equally near with the lower index.
Precedes(d, i, j) ==
    f64_lt(d[i], d[j]) \/ (f64_eq(d[i], d[j]) /\ i < j)

NearestK(d, k) ==
    { i \in 1..Len(d) :
        Cardinality({ j \in 1..Len(d) : Precedes(d, j, i) }) < k }

MajorityLabel(target, S) ==
    IF Cardinality({ i \in S : target[i] = 1 })
           > Cardinality({ i \in S : target[i] = 0 })
    THEN 1 ELSE 0

\* C8: for every registered dataset, odd k <= N and query, equidistant ones
\* included, the label returned equals the majority label of the k distinct
\* training points nearest to the query, equal distances ranked by lower
\* original index.
C8_EqualsNearestNeighbourVote ==
    (Classified /\ call.outcome = "ok") =>
        LET d == calc_euclidean_dist(TrainOf(call.data_set), call.pt)
        IN  call.ret = MajorityLabel(TargetOf(call.data_set),
                                     NearestK(d, call.k))

C9_PRED_CLASS == <<0, 1, 1, 1, 1, 1, 1, 0, 1, 0>>

\* C9: on the cancer set with k = 3, query [15.8, 2.0] ranks training
\* indices [2, 5, 6] first, with labels [1, 0, 1], and is classified 1; query
\* [13.9, 1.9] is classified 1; the ten training points are classified
\* [0, 1, 1, 1, 1, 1, 1, 0, 1, 0].
C9_CancerScenarios ==
    (Classified /\ call.k = 3 /\ call.data_set = "cancer") =>
        /\ call.outcome = "ok"
        /\ call.pt = <<158, 20>> =>
               /\ SubSeq(call.inds, 1, 3) = <<2, 5, 6>>
               /\ call.first_k = <<1, 0, 1>>
               /\ call.ret = 1
        /\ call.pt = <<139, 19>> => call.ret = 1
        /\ \A i \in 1..10 :
               call.pt = TOY_CANCER_TRAIN[i] => call.ret = C9_PRED_CLASS[i]

C9_Witness ==
    /\ Classified
    /\ call.k = 3
    /\ call.data_set = "cancer"
    /\ call.pt = <<158, 20>>
    /\ call.ret = 1

\* C10: once a classifier is constructed, by new with an accepted k or by
\* default (k = 5), param_k keeps its construction value through every
\* run_analysis call and is odd with 1 <= param_k <= 15.
C10_ParamKFixed ==
    /\ [](initialized => param_k \in OddK)
    /\ [][(~initialized /\ call'.op = "default") => param_k' = 5]_vars
    /\ [][(~initialized /\ call'.op = "new" /\ initialized') =>
              param_k' = call'.k]_vars
    /\ [][initialized => initialized' /\ param_k' = param_k]_vars

C10_Witness ==
    /\ initialized
    /\ param_k = 5
    /\ Len(logs) >= 2
    /\ UnknownSelectorCall

\* The diagnostic line that belongs to a selector
LineOf(data_set) ==
    IF data_set = "cancer" THEN LOG_CANCER
    ELSE IF data_set = "customer" THEN LOG_CUSTOMER
    ELSE LOG_RESPECIFY

\* C11: every run_analysis call appends exactly one line to the log, the
\* line of its selector (cancer, customer, or re-specify for any other), and
\* appends it before the classification, so it is there also when the
\* classification faults; no other operation logs, earlier lines are kept,
\* hence the lines stand in the order of the calls.
C11_OneLinePerCallInOrder ==
    /\ [][call'.op = "run_analysis" =>
              logs' = Append(logs, LineOf(call'.data_set))]_vars
    /\ [][call'.op # "run_analysis" => logs' = logs]_vars
    /\ [](Len(logs) > 0 =>
              call.op = "run_analysis" /\ LastLog = LineOf(call.data_set))

C11_Witness ==
    /\ logs = <<LOG_CANCER, LOG_CUSTOMER, LOG_RESPECIFY>>
    /\ call.op = "run_analysis"
    /\ call.data_set = "wrong dataset"
    /\ call.k = 3

====
